---- MODULE Spec2Model ----
(***************************************************************************)
(* NERV desk dashboard: the calendar and Notion integrations, the pages    *)
(* that cache their data, and the polling loop of main.py.                 *)
(*                                                                         *)
(* Time is an integer number of minutes.  A datetime is the number of      *)
(* minutes since day 0, 00:00; a date is a day number.  All datetimes are  *)
(* drawn from this one totally ordered domain.  The start times of the     *)
(* calendar events are taken to be mutually comparable; the due dates of   *)
(* Notion record whether they are offset-aware.                            *)
(***************************************************************************)
EXTENDS Integers, Sequences, FiniteSets, TLC

VARIABLES now, secrets, client, call,
          page, dash, todopage, sat, frame, hist,
          button_request, pending, polls, displayed, step,
          twin, layout

calvars == <<now, secrets, client, call>>

pagevars == <<page, dash, todopage, sat, frame, hist>>

mainvars == <<button_request, pending, polls, displayed, step>>

auxvars == <<twin, layout>>

vars == <<now, secrets, client, call, page, dash, todopage, sat, frame, hist,
          button_request, pending, polls, displayed, step, twin, layout>>

----------------------------------------------------------------------------
(* datetime helpers *)

DayMinutes == 24 * 60

\* datetime.date()
DateOf(dt) == dt \div DayMinutes

\* datetime.combine(d, datetime.min.time())
Midnight(d) == d * DayMinutes

\* the wall clock at which the model starts: day 1, 08:00
ClockStart == DayMinutes + 8 * 60

\* how many minutes the model lets the clock run
MaxElapsed == 15

----------------------------------------------------------------------------
(* ICS feeds *)

\* A VEVENT as recurring_ical_events hands it to get_events: the kind of
\* its DTSTART ("none": no DTSTART, "date": all-day, "datetime": timed),
\* the day and minute of the start, and how many days later it ends.
VEvent(k, d, m, n) == [dtstart |-> k, day |-> d, minute |-> m, days |-> n]

\* A parsed Calendar: its events, and whether its recurrence rules expand.
Cal(evs, ok) == [events |-> evs, rrule_ok |-> ok]

NoCal == Cal(<< >>, TRUE)

\* The feeds a calendar server may serve in the stateful specifications
\* (today is day 1): one with a timed and an all-day event today, an event
\* that began yesterday and runs into today, an event three days ahead and
\* an event without DTSTART; and one whose recurrence rules do not expand.
FeedMixed == Cal(<< VEvent("datetime", 4, 540, 0), VEvent("datetime", 1, 600, 0),
                    VEvent("datetime", 0, 1380, 1), VEvent("none", 0, 0, 0),
                    VEvent("date", 1, 0, 0) >>, TRUE)
FeedBadRule == Cal(<< VEvent("datetime", 1, 600, 0) >>, FALSE)

Feeds == {FeedMixed, FeedBadRule}

\* What one HTTP GET of an ICS URL can produce: requests.get raising
\* (connection error or timeout), raise_for_status raising, Calendar.from_ical
\* raising, or a parsed calendar.
FetchFailures == {"http_error", "timeout", "bad_ics"}

Response(k, c) == [kind |-> k, cal |-> c]

Responses == {Response(k, NoCal) : k \in FetchFailures}
             \cup {Response("ok", c) : c \in Feeds}

----------------------------------------------------------------------------
(* CalendarClient *)

\* secrets.CALENDARS
CALENDARS == << [url |-> "webcal://a", name |-> "Work"],
                [url |-> "https://b", name |-> "Home"],
                [url |-> "https://a", name |-> "Mirror"] >>

\* CalendarClient.cache_minutes
cache_minutes == 15

\* a _fetch_ics that requests the URL as configured
NormalizeUrl_as_configured(url) == url

\* url.replace("webcal://", "https://", 1) when url starts with webcal://
NormalizeUrl(url) ==
    IF url = "webcal://a" THEN "https://a"
    ELSE IF url = "webcal://b" THEN "https://b"
    ELSE url

\* CalendarClient.__init__: empty _cache and _cache_time
NewClient == [_cache |-> << >>, _cache_time |-> << >>]

\* a cache that still counts an entry of exactly cache_minutes as fresh
CacheFresh_inclusive(t, cached_at) == (t - cached_at) <= cache_minutes

\* cache_age < self.cache_minutes, with cache_age in minutes
CacheFresh(t, cached_at) == (t - cached_at) < cache_minutes

\* dict assignment d[k] = v
DictSet(d, k, v) == [x \in DOMAIN d \cup {k} |-> IF x = k THEN v ELSE d[x]]

\* CalendarClient._fetch_ics: the client after the call, whether a calendar
\* was returned (ok) and which, and the HTTP requests issued.
_fetch_ics(cl, rawurl, resp, t) ==
    LET url == NormalizeUrl(rawurl) IN
    IF url \in DOMAIN cl._cache /\ CacheFresh(t, cl._cache_time[url])
    THEN [client |-> cl, ok |-> TRUE, cal |-> cl._cache[url], requests |-> << >>]
    ELSE IF resp.kind = "ok"
    THEN [client |-> [_cache |-> DictSet(cl._cache, url, resp.cal),
                      _cache_time |-> DictSet(cl._cache_time, url, t)],
          ok |-> TRUE, cal |-> resp.cal, requests |-> << url >>]
    ELSE [client |-> cl, ok |-> FALSE, cal |-> NoCal, requests |-> << url >>]

\* recurring_ical_events.of(cal).between(start_date, end_date): the events
\* that overlap the window from today 00:00 to the end of today+days_ahead
Between(cal, today, days_ahead) ==
    SelectSeq(cal.events,
              LAMBDA ev : \/ ev.dtstart = "none"
                          \/ /\ ev.day <= today + days_ahead
                             /\ ev.day + ev.days >= today)

\* CalendarClient._parse_event_time: (start, is_all_day); has = FALSE stands
\* for a start of None
_parse_event_time(ev) ==
    IF ev.dtstart = "none"
    THEN [has |-> FALSE, start |-> 0, is_all_day |-> TRUE]
    ELSE IF ev.dtstart = "datetime"
    THEN [has |-> TRUE, start |-> Midnight(ev.day) + ev.minute, is_all_day |-> FALSE]
    ELSE [has |-> TRUE, start |-> Midnight(ev.day), is_all_day |-> TRUE]

\* the inner loop of get_events: one event dict per event that has a start
RECURSIVE EventDicts(_, _)
EventDicts(events, name) ==
    IF events = << >> THEN << >>
    ELSE LET p == _parse_event_time(Head(events))
             rest == EventDicts(Tail(events), name)
         IN IF ~p.has THEN rest
            ELSE << [start |-> p.start, is_all_day |-> p.is_all_day,
                     calendar |-> name] >> \o rest

\* a sort key without the today-first component
sort_key_by_date(e, today) ==
    << 0, DateOf(e.start), IF e.is_all_day THEN 0 ELSE 1, e.start >>

\* get_events.sort_key
sort_key(e, today) ==
    << IF DateOf(e.start) = today THEN 0 ELSE 1,
       DateOf(e.start),
       IF e.is_all_day THEN 0 ELSE 1,
       e.start >>

\* Python's tuple comparison a < b on tuples of integers of one length
TupleLess(a, b) ==
    \E i \in 1..Len(a) : a[i] < b[i] /\ \A j \in 1..(i - 1) : a[j] = b[j]

\* list.sort(key=sort_key) is a stable sort: insertion from the left
RECURSIVE InsertSorted(_, _, _)
InsertSorted(e, s, today) ==
    IF s = << >> THEN << e >>
    ELSE IF TupleLess(sort_key(e, today), sort_key(s[Len(s)], today))
    THEN Append(InsertSorted(e, SubSeq(s, 1, Len(s) - 1), today), s[Len(s)])
    ELSE Append(s, e)

RECURSIVE SortEvents(_, _)
SortEvents(s, today) ==
    IF s = << >> THEN << >>
    ELSE InsertSorted(s[Len(s)], SortEvents(SubSeq(s, 1, Len(s) - 1), today), today)

\* a loop body that serves the stale cache entry when the fetch fails
CalendarStep_stale(cfg, st, resp, t, days_ahead) ==
    LET f == _fetch_ics(st.client, cfg.url, resp, t)
        url == NormalizeUrl(cfg.url)
        stale == ~f.ok /\ url \in DOMAIN st.client._cache
        cal == IF stale THEN st.client._cache[url] ELSE f.cal
    IN IF (~f.ok /\ ~stale) \/ ~cal.rrule_ok
       THEN [st EXCEPT !.client = f.client,
                       !.requests = st.requests \o f.requests]
       ELSE [st EXCEPT !.client = f.client,
                       !.requests = st.requests \o f.requests,
                       !.all_events = st.all_events
                           \o EventDicts(Between(cal, DateOf(t), days_ahead), cfg.name)]

\* One pass of the loop over self.calendars in get_events.  st carries the
\* client, all_events and the HTTP requests issued so far.
CalendarStep(cfg, st, resp, t, days_ahead) ==
    LET f == _fetch_ics(st.client, cfg.url, resp, t) IN
    IF ~f.ok
    THEN [st EXCEPT !.client = f.client,
                    !.requests = st.requests \o f.requests]
    ELSE IF ~f.cal.rrule_ok
    THEN [st EXCEPT !.client = f.client,
                    !.requests = st.requests \o f.requests]
    ELSE [st EXCEPT !.client = f.client,
                    !.requests = st.requests \o f.requests,
                    !.all_events = st.all_events
                        \o EventDicts(Between(f.cal, DateOf(t), days_ahead), cfg.name)]

RECURSIVE CalendarLoop(_, _, _, _, _, _)
CalendarLoop(i, calendars, st, resps, t, days_ahead) ==
    IF i > Len(calendars) THEN st
    ELSE CalendarLoop(i + 1, calendars,
                      CalendarStep(calendars[i], st, resps[i], t, days_ahead),
                      resps, t, days_ahead)

\* CalendarClient.get_events
get_events(cl, calendars, resps, t, days_ahead) ==
    LET st == CalendarLoop(1, calendars,
                           [client |-> cl, all_events |-> << >>,
                            requests |-> << >>],
                           resps, t, days_ahead)
    IN [client |-> st.client, requests |-> st.requests,
        ret |-> SortEvents(st.all_events, DateOf(t))]

Min(a, b) == IF a < b THEN a ELSE b

\* a get_events_for_display that looks only as far ahead as get_events
\* does by default
get_events_for_display_default_window(cl, calendars, resps, t, max_events) ==
    LET r == get_events(cl, calendars, resps, t, 2)
    IN [r EXCEPT !.ret = SubSeq(r.ret, 1, Min(max_events, Len(r.ret)))]

\* CalendarClient.get_events_for_display: events[:max_events] of 14 days
get_events_for_display(cl, calendars, resps, t, max_events) ==
    LET r == get_events(cl, calendars, resps, t, 14)
    IN [r EXCEPT !.ret = SubSeq(r.ret, 1, Min(max_events, Len(r.ret)))]

\* secrets.py as get_calendar_events and get_notion_todos find it: absent
\* (ImportError), with no calendars and no Notion credentials, or with both
NoSecrets == [present |-> FALSE, CALENDARS |-> << >>, notion |-> FALSE]
EmptySecrets == [present |-> TRUE, CALENDARS |-> << >>, notion |-> FALSE]
FullSecrets == [present |-> TRUE, CALENDARS |-> CALENDARS, notion |-> TRUE]

\* get_calendar_events: a new CalendarClient for every call
get_calendar_events(sec, resps, t, max_events) ==
    IF ~sec.present \/ sec.CALENDARS = << >>
    THEN [requests |-> << >>, ret |-> << >>, raised |-> FALSE]
    ELSE LET r == get_events_for_display(NewClient, sec.CALENDARS, resps, t, max_events)
         IN [requests |-> r.requests, ret |-> r.ret, raised |-> FALSE]

RECURSIVE SeqsUpTo(_, _)
SeqsUpTo(S, n) ==
    IF n = 0 THEN {<< >>}
    ELSE LET shorter == SeqsUpTo(S, n - 1)
         IN shorter \cup {Append(q, x) : q \in {r \in shorter : Len(r) = n - 1}, x \in S}

Range(s) == {s[k] : k \in 1..Len(s)}

----------------------------------------------------------------------------
(* NotionClient *)

\* the query endpoint of NotionClient.fetch_todos
NOTION_QUERY_URL == "https://api.notion.com/v1/databases/db/query"

\* A page of the database as the query returns it: the name of its Status
\* and its "Due date" (kind "none": no date, "invalid": a start that does
\* not parse, "date": YYYY-MM-DD, "datetime": date and time; aware tells
\* that the start carries a UTC offset, which makes the parsed datetime
\* offset-aware).
NotionPage(status, k, d, m, aw) ==
    [status |-> status, due |-> [kind |-> k, day |-> d, minute |-> m, aware |-> aw]]

MaxTodos == 3

NotionDays == 0..2

NotionDues ==
    {[kind |-> "none", day |-> 0, minute |-> 0, aware |-> FALSE],
     [kind |-> "invalid", day |-> 0, minute |-> 0, aware |-> FALSE]}
    \cup {[kind |-> "date", day |-> d, minute |-> 0, aware |-> FALSE] : d \in NotionDays}
    \cup {[kind |-> "datetime", day |-> d, minute |-> 600, aware |-> FALSE] :
              d \in NotionDays}
    \cup {[kind |-> "datetime", day |-> d, minute |-> 600, aware |-> TRUE] :
              d \in 0..1}

NotionPages(include_done) ==
    {[status |-> st, due |-> du] :
        st \in (IF include_done THEN {"Not done", "Done"} ELSE {"Not done"}),
        du \in NotionDues}

\* What the POST of the query can produce: requests.post raising (network
\* error, timeout), raise_for_status raising (non-2xx), a JSON body that is
\* no object, or a body with results.
NotionRequestFailures == {"network_error", "timeout", "http_status"}

NotionResponse(k, results) == [kind |-> k, results |-> results]

NotionResponses(include_done) ==
    {NotionResponse(k, << >>) : k \in NotionRequestFailures \cup {"bad_body"}}
    \cup {NotionResponse("ok", r) : r \in SeqsUpTo(NotionPages(include_done), MaxTodos)}

\* NotionClient._parse_date: has = FALSE stands for None; an offset-aware
\* datetime is represented by its instant
_parse_date(due) ==
    IF due.kind = "date" THEN [has |-> TRUE, dt |-> Midnight(due.day), aware |-> FALSE]
    ELSE IF due.kind = "datetime"
    THEN [has |-> TRUE, dt |-> Midnight(due.day) + due.minute, aware |-> due.aware]
    ELSE [has |-> FALSE, dt |-> 0, aware |-> FALSE]

\* the body of the loop over data["results"] in fetch_todos
TodoDict(pg, today_date) ==
    LET done == pg.status = "Done"
        due == _parse_date(pg.due)
    IN [status |-> pg.status, done |-> done, has_due |-> due.has, due_date |-> due.dt,
        aware |-> due.aware,
        is_overdue |-> due.has /\ ~done /\ DateOf(due.dt) < today_date]

\* a fetch_todos whose try block catches nothing
fetch_todos_uncaught(resp, t) ==
    IF resp.kind \in NotionRequestFailures \cup {"bad_body"}
    THEN [requests |-> << NOTION_QUERY_URL >>, ret |-> << >>, raised |-> TRUE]
    ELSE [requests |-> << NOTION_QUERY_URL >>,
          ret |-> [k \in 1..Len(resp.results) |-> TodoDict(resp.results[k], DateOf(t))],
          raised |-> FALSE]

\* NotionClient.fetch_todos; raised tells that an exception left the call
fetch_todos(resp, t) ==
    IF resp.kind \in NotionRequestFailures
    THEN [requests |-> << NOTION_QUERY_URL >>, ret |-> << >>, raised |-> FALSE]
    ELSE IF resp.kind = "bad_body"
    THEN [requests |-> << NOTION_QUERY_URL >>, ret |-> << >>, raised |-> TRUE]
    ELSE [requests |-> << NOTION_QUERY_URL >>,
          ret |-> [k \in 1..Len(resp.results) |-> TodoDict(resp.results[k], DateOf(t))],
          raised |-> FALSE]

\* the include flag of get_todos_for_display
IncludeTodo(todo, today) ==
    IF ~todo.has_due THEN TRUE ELSE DateOf(todo.due_date) <= today

\* datetime.max: the last day of year 9999, later than every datetime a
\* response can carry
DatetimeMax == 9999 * 366

\* a key that ranks the todos due today before the overdue ones
todo_sort_key_today_first(t) ==
    IF t.is_overdue THEN << 1, IF t.has_due THEN t.due_date ELSE DatetimeMax >>
    ELSE IF t.has_due THEN << 0, t.due_date >>
    ELSE << 2, DatetimeMax >>

\* get_todos_for_display.sort_key
todo_sort_key(t) ==
    IF t.is_overdue THEN << 0, IF t.has_due THEN t.due_date ELSE DatetimeMax >>
    ELSE IF t.has_due THEN << 1, t.due_date >>
    ELSE << 2, DatetimeMax >>

RECURSIVE InsertTodo(_, _)
InsertTodo(e, s) ==
    IF s = << >> THEN << e >>
    ELSE IF TupleLess(todo_sort_key(e), todo_sort_key(s[Len(s)]))
    THEN Append(InsertTodo(e, SubSeq(s, 1, Len(s) - 1)), s[Len(s)])
    ELSE Append(s, e)

RECURSIVE SortTodos(_)
SortTodos(s) ==
    IF s = << >> THEN << >>
    ELSE InsertTodo(s[Len(s)], SortTodos(SubSeq(s, 1, Len(s) - 1)))

\* display_todos.sort raises TypeError when it compares an offset-aware
\* with an offset-naive due date, which it does exactly when two todos have
\* the same first key component and due dates of the two sorts (the keys of
\* the todos without due date all hold datetime.max)
SortRaises(s) ==
    \E i, j \in 1..Len(s) :
        /\ todo_sort_key(s[i])[1] = todo_sort_key(s[j])[1]
        /\ s[i].has_due /\ s[j].has_due
        /\ s[i].aware /\ ~s[j].aware

\* NotionClient.get_todos_for_display
get_todos_for_display(resp, t) ==
    LET f == fetch_todos(resp, t)
        display_todos == SelectSeq(f.ret, LAMBDA todo : IncludeTodo(todo, DateOf(t)))
    IN IF f.raised THEN f
       ELSE IF SortRaises(display_todos)
       THEN [requests |-> f.requests, ret |-> << >>, raised |-> TRUE]
       ELSE [f EXCEPT !.ret = SortTodos(display_todos)]

\* get_notion_todos
get_notion_todos(sec, resp, t) ==
    IF ~sec.present \/ ~sec.notion
    THEN [requests |-> << >>, ret |-> << >>, raised |-> FALSE]
    ELSE get_todos_for_display(resp, t)

----------------------------------------------------------------------------
(* Pages.  _last_fetch and _cached_image are << >> for None and a          *)
(* one-element sequence otherwise.                                         *)

\* DashboardPage.__init__
NewDashboardPage == [events |-> << >>, _last_fetch |-> << >>]

\* DashboardPage.refresh_events
refresh_events(pg, sec, resps, t) ==
    LET r == get_calendar_events(sec, resps, t, 6) IN
    IF r.raised
    THEN [pg |-> [pg EXCEPT !.events = << >>], requests |-> r.requests]
    ELSE [pg |-> [events |-> r.ret, _last_fetch |-> << t >>], requests |-> r.requests]

\* a render that refreshes again once the events are cache_minutes old
dashboard_render_timed(pg, sec, resps, t) ==
    IF pg._last_fetch = << >> \/ t - pg._last_fetch[1] >= cache_minutes
    THEN refresh_events(pg, sec, resps, t)
    ELSE [pg |-> pg, requests |-> << >>]

\* DashboardPage.render: the page after the call and the HTTP requests
dashboard_render(pg, sec, resps, t) ==
    IF pg._last_fetch = << >>
    THEN refresh_events(pg, sec, resps, t)
    ELSE [pg |-> pg, requests |-> << >>]

\* TodosPage.__init__
NewTodosPage == [todos |-> << >>, _last_fetch |-> << >>]

\* a refresh that never records the time of the fetch
refresh_todos_unstamped(pg, sec, resp, t) ==
    LET r == get_notion_todos(sec, resp, t) IN
    IF r.raised
    THEN [pg |-> [pg EXCEPT !.todos = << >>], requests |-> r.requests]
    ELSE [pg |-> [pg EXCEPT !.todos = r.ret], requests |-> r.requests]

\* TodosPage.refresh_todos
refresh_todos(pg, sec, resp, t) ==
    LET r == get_notion_todos(sec, resp, t) IN
    IF r.raised
    THEN [pg |-> [pg EXCEPT !.todos = << >>], requests |-> r.requests]
    ELSE [pg |-> [todos |-> r.ret, _last_fetch |-> << t >>], requests |-> r.requests]

\* TodosPage.render: the page after the call and the HTTP requests
todos_render(pg, sec, resp, t) ==
    IF pg._last_fetch = << >>
    THEN refresh_todos(pg, sec, resp, t)
    ELSE [pg |-> pg, requests |-> << >>]

\* SatellitePage.EARTHVIEW_JSON_URL
EARTHVIEW_JSON_URL ==
    "https://raw.githubusercontent.com/limhenry/earthview/master/earthview.json"

\* An entry of earthview.json: its id and the URL of its image ("" when the
\* entry has none).
ImageData(i, url) == [id |-> i, image |-> url]

\* the lists the Earth View server may serve
EarthViewLists ==
    { << >>,
      << ImageData(1, "https://www.gstatic.com/prettyearth/1.jpg"),
         ImageData(2, "https://www.gstatic.com/prettyearth/2.jpg") >>,
      << ImageData(3, "") >>,
      << ImageData(4, "https://www.gstatic.com/prettyearth/4.jpg") >> }

Shuffles(s) ==
    {[k \in 1..Len(s) |-> s[f[k]]] :
        f \in {g \in [1..Len(s) -> 1..Len(s)] :
                  \A a, b \in 1..Len(s) : a # b => g[a] # g[b]}}

\* SatellitePage.__init__
NewSatellitePage ==
    [images_data |-> << >>, current_image_index |-> 0, _last_fetch |-> << >>,
     _cached_image |-> << >>, _cache_index |-> -1]

\* SatellitePage.fetch_image_list; list_ok tells whether the GET and the
\* JSON parse succeeded, shuffled is the list after random.shuffle
fetch_image_list(pg, list_ok, shuffled, t) ==
    IF list_ok
    THEN [pg |-> [pg EXCEPT !.images_data = shuffled, !._last_fetch = << t >>],
          ret |-> TRUE, requests |-> << EARTHVIEW_JSON_URL >>]
    ELSE [pg |-> pg, ret |-> FALSE, requests |-> << EARTHVIEW_JSON_URL >>]

\* SatellitePage.fetch_image: the image (<< >> for None) and the requests
fetch_image(image_data, image_ok) ==
    IF image_data.image = "" THEN [img |-> << >>, requests |-> << >>]
    ELSE IF image_ok
    THEN [img |-> << image_data.id >>, requests |-> << image_data.image >>]
    ELSE [img |-> << >>, requests |-> << image_data.image >>]

\* The frame a render returns, as far as the claims read it: the page, the
\* HTTP requests the render issued, the id of the satellite image pasted,
\* the id of the entry the data overlay describes, and the i/N counter.
Frame(name, requests, image, overlay, counter) ==
    [name |-> name, requests |-> requests, image |-> image, overlay |-> overlay,
     counter |-> counter]

\* an advance of the slideshow that does not wrap around
AdvanceIndex_unwrapped(idx, n) == idx + 1

\* the end of SatellitePage.render: the index of the next image
AdvanceIndex(idx, n) == (idx + 1) % n

\* SatellitePage.render: the page after the call, the frame, and what
\* fetch_image_list returned when it was called ("none" when it was not)
satellite_render(pg, list_ok, shuffled, image_ok, t) ==
    LET need == pg._last_fetch = << >> \/ pg.images_data = << >>
        l == IF need THEN fetch_image_list(pg, list_ok, shuffled, t)
             ELSE [pg |-> pg, ret |-> TRUE, requests |-> << >>]
        p1 == l.pg
        n == Len(p1.images_data)
    IN IF n = 0
       THEN [pg |-> p1,
             frame |-> Frame("satellite", l.requests, << >>, << >>, << >>),
             listed |-> IF need THEN l.ret ELSE TRUE, fetched |-> need]
       ELSE LET idx == p1.current_image_index % n
                current_data == p1.images_data[idx + 1]
                miss == p1._cache_index # idx \/ p1._cached_image = << >>
                f == IF miss THEN fetch_image(current_data, image_ok)
                     ELSE [img |-> << >>, requests |-> << >>]
                p2 == IF miss /\ f.img # << >>
                      THEN [p1 EXCEPT !._cached_image = f.img, !._cache_index = idx]
                      ELSE p1
            IN [pg |-> [p2 EXCEPT !.current_image_index = AdvanceIndex(idx, n)],
                frame |-> Frame("satellite", l.requests \o f.requests,
                                p2._cached_image, << current_data.id >>,
                                << idx + 1, n >>),
                listed |-> IF need THEN l.ret ELSE TRUE, fetched |-> need]

----------------------------------------------------------------------------
(* Rendering one page object again and again.  The page objects share no   *)
(* state, so a behaviour drives the one page chosen initially.             *)

PageNames == {"dashboard", "todos", "satellite"}

NoFrame == Frame("none", << >>, << >>, << >>, << >>)

\* how many renders of the page a behaviour follows
MaxRenders == 4

\* History of the renders of the page: how many there were and, of the data
\* fetches they attempted, whether one ever failed; whether one ever failed
\* with the failure swallowed in the integration; and how the latest
\* attempt ended ("ok", "swallowed": failure swallowed in the integration,
\* "caught": exception caught by the refresh method, "false":
\* fetch_image_list returned False).
Hist(renders, failed, swallowed, last) ==
    [renders |-> renders, failed |-> failed, swallowed |-> swallowed, last |-> last]

NoHist == Hist(0, FALSE, FALSE, "none")

\* the history after one more render, which attempted a fetch or not
Record(h, fetched, outcome) ==
    IF fetched
    THEN Hist(h.renders + 1, h.failed \/ outcome # "ok",
              h.swallowed \/ outcome = "swallowed", outcome)
    ELSE [h EXCEPT !.renders = h.renders + 1]

\* what a render drew into a box, when only the drawing is followed
NoLayout == [op |-> "none"]

\* A second run of the satellite page, started from the same initial state:
\* its page object and the frame of its latest render.
NoTwin == [sat |-> NewSatellitePage, frame |-> NoFrame]

PagesIdle ==
    /\ dash = NewDashboardPage
    /\ todopage = NewTodosPage
    /\ sat = NewSatellitePage
    /\ frame = NoFrame
    /\ hist = NoHist
    /\ twin = NoTwin
    /\ layout = NoLayout

\* The answers of the calendar servers during one call, one per configured
\* calendar; a server answers every request of one call alike.
ResponseVectors ==
    {v \in [1..Len(CALENDARS) -> Responses] :
        \A i, j \in 1..Len(CALENDARS) :
            NormalizeUrl(CALENDARS[i].url) = NormalizeUrl(CALENDARS[j].url)
                => v[i] = v[j]}

RenderDashboard ==
    \E resps \in ResponseVectors :
        LET r == dashboard_render(dash, secrets, resps, now)
            bad == \E i \in 1..Len(secrets.CALENDARS) : resps[i].kind # "ok"
        IN /\ page = "dashboard"
           /\ hist.renders < MaxRenders
           /\ dash' = r.pg
           /\ frame' = Frame("dashboard", r.requests, << >>, << >>, << >>)
           /\ hist' = Record(hist, r.requests # << >>,
                             IF bad THEN "swallowed" ELSE "ok")
           /\ UNCHANGED <<auxvars, page, todopage, sat, calvars, mainvars>>

\* TodosPage.render with the answer Notion has ready
RenderTodosWith(resp) ==
    LET r == todos_render(todopage, secrets, resp, now)
    IN /\ todopage' = r.pg
       /\ frame' = Frame("todos", r.requests, << >>, << >>, << >>)
       /\ hist' = Record(hist, r.requests # << >>,
                         IF resp.kind \in NotionRequestFailures
                         THEN "swallowed"
                         ELSE IF r.pg._last_fetch = << >> THEN "caught"
                         ELSE "ok")
       /\ UNCHANGED <<auxvars, page, dash, sat, calvars, mainvars>>

\* a render that finds _last_fetch set posts no query, so that no answer
\* is drawn for it
RenderTodos ==
    /\ page = "todos"
    /\ call.op = "init"
    /\ hist.renders < MaxRenders
    /\ \/ /\ todopage._last_fetch = << >>
          /\ \E resp \in NotionResponses(FALSE) : RenderTodosWith(resp)
       \/ /\ todopage._last_fetch # << >>
          /\ RenderTodosWith(NotionResponse("ok", << >>))

RenderSatellite ==
    \E list_ok \in BOOLEAN, list \in EarthViewLists, image_ok \in BOOLEAN :
        \E shuffled \in Shuffles(list) :
            LET r == satellite_render(sat, list_ok, shuffled, image_ok, now)
            IN /\ page = "satellite"
               /\ hist.renders < MaxRenders
               /\ sat' = r.pg
               /\ frame' = r.frame
               /\ hist' = Record(hist, r.fetched, IF r.listed THEN "ok" ELSE "false")
               /\ UNCHANGED <<auxvars, page, dash, todopage, calvars, mainvars>>

----------------------------------------------------------------------------
(* TodosPage.render: the todos box *)

\* the display heights followed
MaxHeight == 480

\* the longest todos list followed
MaxRows == 12

\* int(x * 0.58) in double precision: the product is cut towards zero, and
\* for the x of this set (among those of magnitude below 750) the rounded
\* product lies just inside the exact one
FloatShort == {50, 100, 200, 400}

Int058(x) ==
    LET a == IF x < 0 THEN -x ELSE x
        m == (58 * a) \div 100 - (IF a \in FloatShort THEN 1 ELSE 0)
    IN IF x < 0 THEN -m ELSE m

\* s[:n]
Slice(s, n) ==
    IF n >= 0 THEN SubSeq(s, 1, Min(n, Len(s)))
    ELSE SubSeq(s, 1, IF Len(s) + n > 0 THEN Len(s) + n ELSE 0)

\* a loop over the rows that never looks at the height left
DrawRows_unchecked(s, item_y, line_height, max_y) ==
    [k \in 1..Len(s) |-> [todo |-> s[k], y |-> item_y + (k - 1) * line_height]]

\* the loop over self.todos[:max_items]: the rows drawn, each with its todo
\* and its y
RECURSIVE DrawRows(_, _, _, _)
DrawRows(s, item_y, line_height, max_y) ==
    IF s = << >> \/ item_y + line_height > max_y THEN << >>
    ELSE << [todo |-> Head(s), y |-> item_y] >>
         \o DrawRows(Tail(s), item_y + line_height, line_height, max_y)

\* the todo list part of TodosPage.render for a page of the given height:
\* the rows drawn, whether the text for an empty list was drawn, and the
\* "+ N more..." line (<< >> when it was not drawn)
todos_box(todos, height) ==
    LET content_top == 45
        top_height == Int058(height - content_top - 20)
        item_y0 == content_top + 22
        line_height == 18
        max_y == content_top + top_height - 10
        max_items == (max_y - item_y0) \div line_height
        rows == IF todos = << >> THEN << >>
                ELSE DrawRows(Slice(todos, max_items), item_y0, line_height, max_y)
        item_y == item_y0 + Len(rows) * line_height
    IN [op |-> "todos_box", height |-> height, todos |-> todos,
        max_y |-> max_y, max_items |-> max_items,
        empty_text |-> todos = << >>,
        rows |-> rows,
        more |-> IF /\ todos # << >>
                    /\ Len(todos) > max_items
                    /\ item_y + line_height <= max_y
                 THEN << [remaining |-> Len(todos) - max_items, y |-> item_y] >>
                 ELSE << >>]

\* the drawing of the todos box, once, for some height and some list; a
\* todo is represented by its position in the list
DrawTodosBox ==
    \E height \in 0..MaxHeight, n \in 0..MaxRows :
        /\ layout = NoLayout
        /\ layout' = todos_box([k \in 1..n |-> k], height)
        /\ UNCHANGED <<twin, calvars, pagevars, mainvars>>

\* the configured display (config.py); main.py builds every page with it
DISPLAY_WIDTH == 600

DISPLAY_HEIGHT == 448

\* how far from the configured display the widths and heights explored lie
MaxDelta == 40

\* x // 2, rounded up instead of down
FloorDiv2_up(x) == (x + 1) \div 2

\* x // 2 of Python: the floor of the quotient
FloorDiv2(x) == x \div 2

\* BasePage.draw_border_frame: the outline is draw.rectangle over the
\* corners (x, y) and (x + width, y + height), both corners drawn
draw_border_frame(x, y, width, height) ==
    [x0 |-> x, y0 |-> y, x1 |-> x + width, y1 |-> y + height]

\* the partitioning of DashboardPage.render for a page of the given size:
\* the layout variables of the method and the three frames it draws
dashboard_boxes(width, height) ==
    LET margin == 15
        gap == 8
        content_top == 35
        arc_height == 65
        arc_y == height - arc_height - 5
        available_height == arc_y - content_top - gap
        col_gap == gap
        left_col_width == FloorDiv2(width - margin * 2 - col_gap)
        right_col_width == left_col_width
        right_col_x == margin + left_col_width + col_gap
        left_time_box_height == FloorDiv2(available_height - gap)
        left_placeholder_height == available_height - left_time_box_height - gap
        placeholder_y == content_top + left_time_box_height + gap
    IN [op |-> "dashboard_boxes", width |-> width, height |-> height,
        margin |-> margin, gap |-> gap, content_top |-> content_top,
        arc_y |-> arc_y, arc_height |-> arc_height,
        available_height |-> available_height,
        left_col_width |-> left_col_width,
        right_col_width |-> right_col_width,
        right_col_x |-> right_col_x,
        left_time_box_height |-> left_time_box_height,
        left_placeholder_height |-> left_placeholder_height,
        placeholder_y |-> placeholder_y,
        time_box |-> draw_border_frame(margin, content_top, left_col_width,
                                       left_time_box_height),
        placeholder_box |-> draw_border_frame(margin, placeholder_y, left_col_width,
                                              left_placeholder_height),
        events_box |-> draw_border_frame(right_col_x, content_top, right_col_width,
                                         available_height),
        arc_area |-> [x0 |-> margin, y0 |-> arc_y,
                      x1 |-> margin + (width - margin * 2),
                      y1 |-> arc_y + arc_height]]

\* the drawing of the dashboard's boxes, once, for some page size
DrawDashboardBoxes ==
    \E width \in (DISPLAY_WIDTH - MaxDelta)..(DISPLAY_WIDTH + MaxDelta),
       height \in (DISPLAY_HEIGHT - MaxDelta)..(DISPLAY_HEIGHT + MaxDelta) :
        /\ layout = NoLayout
        /\ layout' = dashboard_boxes(width, height)
        /\ UNCHANGED <<twin, calvars, pagevars, mainvars>>

----------------------------------------------------------------------------
(* main.py: NERVDashboard.run *)

\* config.UPDATE_INTERVAL
UPDATE_INTERVAL == 300

\* config.PAGES and config.DEFAULT_PAGE
PAGES == << "dashboard", "todos", "experimental" >>
DEFAULT_PAGE == "dashboard"

\* how many edge events of button B the line request may hold unread
MaxPending == 2

\* a loop that polls only UPDATE_INTERVAL times between scheduled updates
PollsPerInterval_short == UPDATE_INTERVAL

\* range(config.UPDATE_INTERVAL * 2)
PollsPerInterval == UPDATE_INTERVAL * 2

\* a check_buttons that reads one edge event per call
check_buttons_one_event(req, pend) ==
    IF ~req THEN [ret |-> FALSE, pending |-> pend]
    ELSE IF pend > 0 THEN [ret |-> TRUE, pending |-> pend - 1]
    ELSE [ret |-> FALSE, pending |-> 0]

\* NERVDashboard.check_buttons: what it returns and the edge events left
\* unread.  Only the line of button B is requested, so every event read is
\* one of button B.
check_buttons(req, pend) ==
    IF ~req THEN [ret |-> FALSE, pending |-> pend]
    ELSE IF pend > 0 THEN [ret |-> TRUE, pending |-> 0]
    ELSE [ret |-> FALSE, pending |-> 0]

\* NERVDashboard.render draws the one main dashboard
RenderedByMain == "dashboard"

MainIdle ==
    /\ button_request = FALSE
    /\ pending = 0
    /\ polls = 0
    /\ displayed = "none"
    /\ step = "constructed"

\* run() up to the loop: setup_buttons, which may or may not obtain the
\* line request, and the initial update_display
RunStart ==
    /\ step = "constructed"
    /\ button_request' \in BOOLEAN
    /\ displayed' = RenderedByMain
    /\ step' = "initial_update"
    /\ UNCHANGED <<auxvars, pending, polls, calvars, pagevars>>

\* a falling edge on the line of button B
PressB ==
    /\ button_request
    /\ pending < MaxPending
    /\ pending' = pending + 1
    /\ UNCHANGED <<auxvars, button_request, polls, displayed, step, calvars, pagevars>>

\* one pass of the for loop of run(): check_buttons, then either
\* update_display and break, or sleep(0.5) and, after the last pass, the
\* scheduled update_display of the else clause
Poll ==
    LET c == check_buttons(button_request, pending) IN
    /\ step # "constructed"
    /\ pending' = c.pending
    /\ IF c.ret
       THEN /\ displayed' = RenderedByMain
            /\ polls' = 0
            /\ step' = "button_update"
       ELSE IF polls + 1 >= PollsPerInterval
       THEN /\ displayed' = RenderedByMain
            /\ polls' = 0
            /\ step' = "scheduled_update"
       ELSE /\ displayed' = displayed
            /\ polls' = polls + 1
            /\ step' = "sleep"
    /\ UNCHANGED <<auxvars, button_request, calvars, pagevars>>

----------------------------------------------------------------------------
(* Specifications *)

\* the record of the last call: the operation, its url or numeric argument,
\* the clock, the kind of answer each server had ready, the HTTP requests
\* issued, and what it returned (for _fetch_ics whether a calendar was
\* returned and which, for the others whether it returned and the list)
CallRec(op, url, arg, at, kinds, requests, ok, cal, ret) ==
    [op |-> op, url |-> url, arg |-> arg, at |-> at, kinds |-> kinds,
     requests |-> requests, ok |-> ok, cal |-> cal, ret |-> ret]

NoCall == CallRec("init", "", 0, ClockStart, << >>, << >>, FALSE, NoCal, << >>)

CalIdle ==
    /\ now = ClockStart
    /\ client = NewClient
    /\ call = NoCall

MainInit ==
    /\ CalIdle
    /\ secrets = FullSecrets
    /\ page = "dashboard"
    /\ PagesIdle
    /\ MainIdle

MainNext == RunStart \/ PressB \/ Poll

SpecMain == MainInit /\ [][MainNext]_vars

PagesInit ==
    /\ CalIdle
    /\ secrets \in {NoSecrets, EmptySecrets, FullSecrets}
    /\ page \in PageNames
    /\ PagesIdle
    /\ MainIdle

LayoutInit ==
    /\ CalIdle
    /\ secrets = FullSecrets
    /\ page = "todos"
    /\ PagesIdle
    /\ MainIdle

LayoutNext == DrawTodosBox

SpecLayout == LayoutInit /\ [][LayoutNext]_vars

BoxesInit ==
    /\ CalIdle
    /\ secrets = FullSecrets
    /\ page = "dashboard"
    /\ PagesIdle
    /\ MainIdle

BoxesNext == DrawDashboardBoxes

SpecBoxes == BoxesInit /\ [][BoxesNext]_vars

\* Two runs of SatellitePage.render side by side, given the same clock
\* reading and the same answers of the servers; random.shuffle orders the
\* list in each run on its own.
RenderTwins ==
    \E list_ok \in BOOLEAN, list \in EarthViewLists, image_ok \in BOOLEAN :
        \E shuffled1, shuffled2 \in Shuffles(list) :
            LET r1 == satellite_render(sat, list_ok, shuffled1, image_ok, now)
                r2 == satellite_render(twin.sat, list_ok, shuffled2, image_ok, now)
            IN /\ page = "satellite"
               /\ hist.renders < MaxRenders
               /\ sat' = r1.pg
               /\ frame' = r1.frame
               /\ hist' = Record(hist, r1.fetched, IF r1.listed THEN "ok" ELSE "false")
               /\ twin' = [sat |-> r2.pg, frame |-> r2.frame]
               /\ UNCHANGED <<layout, page, dash, todopage, calvars, mainvars>>

TwinInit ==
    /\ CalIdle
    /\ secrets = FullSecrets
    /\ page = "satellite"
    /\ PagesIdle
    /\ MainIdle

TwinNext == RenderTwins

SpecTwin == TwinInit /\ [][TwinNext]_vars

PagesNext == RenderDashboard \/ RenderTodos \/ RenderSatellite

SpecPages == PagesInit /\ [][PagesNext]_vars

\* NotionClient.fetch_todos called directly, once
NotionFetchTodos ==
    /\ call = NoCall
    /\ frame = NoFrame
    /\ \E include_done \in BOOLEAN :
        \E resp \in NotionResponses(include_done) :
            LET r == fetch_todos(resp, now)
            IN /\ call' = CallRec("fetch_todos", "", IF include_done THEN 1 ELSE 0,
                                  now, << resp.kind >>, r.requests, ~r.raised,
                                  NoCal, r.ret)
               /\ UNCHANGED <<auxvars, now, secrets, client, pagevars, mainvars>>

\* NotionClient.get_todos_for_display called directly, once; the record of
\* the call also holds the results the query delivered
NotionGetTodosForDisplay ==
    /\ call = NoCall
    /\ frame = NoFrame
    /\ \E resp \in NotionResponses(FALSE) :
        LET r == get_todos_for_display(resp, now)
        IN /\ call' = CallRec("get_todos_for_display", "", 0, now, << resp.kind >>,
                              r.requests, ~r.raised, NoCal, r.ret)
                         @@ [results |-> resp.results]
           /\ UNCHANGED <<auxvars, now, secrets, client, pagevars, mainvars>>

TodosInit ==
    /\ CalIdle
    /\ secrets \in {NoSecrets, EmptySecrets, FullSecrets}
    /\ page = "todos"
    /\ PagesIdle
    /\ MainIdle

TodosNext == NotionFetchTodos \/ NotionGetTodosForDisplay \/ RenderTodos

SpecTodos == TodosInit /\ [][TodosNext]_vars

----------------------------------------------------------------------------
(* The calendar client driven directly: a long-lived CalendarClient built    *)
(* from CALENDARS, and get_calendar_events with its per-call client.         *)

Kinds(resps) == [i \in DOMAIN resps |-> resps[i].kind]

CalInit ==
    /\ CalIdle
    /\ secrets \in {NoSecrets, EmptySecrets, FullSecrets}
    /\ page = "dashboard"
    /\ PagesIdle
    /\ MainIdle

Tick ==
    /\ now + 5 <= ClockStart + MaxElapsed
    /\ now' = now + 5
    /\ UNCHANGED <<auxvars, secrets, client, call, pagevars, mainvars>>

FetchIcs ==
    \E i \in 1..Len(secrets.CALENDARS), resp \in Responses :
        LET url == secrets.CALENDARS[i].url
            f == _fetch_ics(client, url, resp, now)
        IN /\ client' = f.client
           /\ call' = CallRec("_fetch_ics", url, 0, now, << resp.kind >>, f.requests,
                              f.ok, f.cal, << >>)
           /\ UNCHANGED <<auxvars, now, secrets, pagevars, mainvars>>

GetEvents ==
    \E days_ahead \in {2, 14}, resps \in ResponseVectors :
        LET r == get_events(client, secrets.CALENDARS, resps, now, days_ahead)
        IN /\ secrets.CALENDARS # << >>
           /\ client' = r.client
           /\ call' = CallRec("get_events", "", days_ahead, now, Kinds(resps),
                              r.requests, TRUE, NoCal, r.ret)
           /\ UNCHANGED <<auxvars, now, secrets, pagevars, mainvars>>

GetCalendarEvents ==
    \E max_events \in {2, 6}, resps \in ResponseVectors :
        LET r == get_calendar_events(secrets, resps, now, max_events)
        IN /\ call' = CallRec("get_calendar_events", "", max_events, now, Kinds(resps),
                              r.requests, TRUE, NoCal, r.ret)
           /\ UNCHANGED <<auxvars, now, secrets, client, pagevars, mainvars>>

\* CalendarClient.get_events_for_display called directly, once, on a new
\* client; the record of the call also holds what get_events returns for
\* the 14 days
GetEventsForDisplay ==
    \E max_events \in {0, 2, 6, 20}, resps \in ResponseVectors :
        LET r == get_events_for_display(client, secrets.CALENDARS, resps, now, max_events)
            all == get_events(client, secrets.CALENDARS, resps, now, 14)
        IN /\ call = NoCall
           /\ frame = NoFrame
           /\ client' = r.client
           /\ call' = CallRec("get_events_for_display", "", max_events, now,
                              Kinds(resps), r.requests, TRUE, NoCal, r.ret)
                         @@ [events |-> all.ret]
           /\ UNCHANGED <<auxvars, now, secrets, pagevars, mainvars>>

DisplayInit ==
    /\ CalIdle
    /\ secrets \in {EmptySecrets, FullSecrets}
    /\ page = "dashboard"
    /\ PagesIdle
    /\ MainIdle

DisplayNext == GetEventsForDisplay \/ RenderDashboard

SpecDisplay == DisplayInit /\ [][DisplayNext]_vars

OnceInit ==
    /\ CalIdle
    /\ secrets \in {NoSecrets, EmptySecrets, FullSecrets}
    /\ page \in {"dashboard", "todos"}
    /\ PagesIdle
    /\ MainIdle

\* renders of one page while time passes
OnceNext == Tick \/ RenderDashboard \/ RenderTodos

SpecOnce == OnceInit /\ [][OnceNext]_vars

FetchNext == Tick \/ FetchIcs

SpecFetch == CalInit /\ [][FetchNext]_vars

CalNext == Tick \/ GetEvents

SpecCal == CalInit /\ [][CalNext]_vars

FeedNext == Tick \/ GetCalendarEvents

SpecFeed == CalInit /\ [][FeedNext]_vars

----------------------------------------------------------------------------
(* get_events as a function of one feed: the client holds one calendar and  *)
(* the server serves any feed of up to MaxEvents events.                    *)

MaxEvents == 3

SortDays == 0..2

\* the events a feed is drawn from: no DTSTART, all-day and timed events on
\* the day before today, today and the day after; an event of the day
\* before today may run into today
SortFeedDomain ==
    {VEvent("none", 0, 0, 0)}
    \cup {VEvent("date", d, 0, 0) : d \in SortDays}
    \cup {VEvent("datetime", d, m, 0) : d \in SortDays, m \in {0, 600}}
    \cup {VEvent("date", 0, 0, 1)}
    \cup {VEvent("datetime", 0, m, 1) : m \in {0, 600}}

OneCalendar == [present |-> TRUE, CALENDARS |-> << CALENDARS[1] >>, notion |-> TRUE]

SortInit ==
    /\ CalIdle
    /\ secrets = OneCalendar
    /\ page = "dashboard"
    /\ PagesIdle
    /\ MainIdle

SortGetEvents ==
    \E days_ahead \in {2, 14}, evs \in SeqsUpTo(SortFeedDomain, MaxEvents) :
        LET resps == << Response("ok", Cal(evs, TRUE)) >>
            r == get_events(client, secrets.CALENDARS, resps, now, days_ahead)
        IN /\ client = NewClient
           /\ client' = r.client
           /\ call' = CallRec("get_events", "", days_ahead, now, Kinds(resps),
                              r.requests, TRUE, NoCal, r.ret)
           /\ UNCHANGED <<auxvars, now, secrets, pagevars, mainvars>>

SortNext == SortGetEvents

SpecSort == SortInit /\ [][SortNext]_vars

----------------------------------------------------------------------------
(* Claims about the calendar integration *)

Count(e, s) == Cardinality({k \in 1..Len(s) : s[k] = e})

CalUrl(i) == NormalizeUrl(secrets.CALENDARS[i].url)

\* calendar i failed in the last get_events: its fetch was attempted and the
\* server answered with a failure, or the calendar that was obtained has
\* recurrence rules that do not expand
CalFailed(i) ==
    IF CalUrl(i) \in Range(call.requests) /\ call.kinds[i] # "ok" THEN TRUE
    ELSE ~client._cache[CalUrl(i)].rrule_ok

\* the events calendar i holds for the window of the last get_events
CalEvents(i) ==
    EventDicts(Between(client._cache[CalUrl(i)], DateOf(call.at), call.arg),
               secrets.CALENDARS[i].name)

C2_NotionFailuresDegrade ==
    /\ (/\ call.op \in {"fetch_todos", "get_todos_for_display"}
        /\ call.kinds[1] \in {"network_error", "timeout", "http_status"})
           => (call.ok /\ call.ret = << >>)
    /\ (/\ frame.requests # << >>
        /\ hist.last = "swallowed")
           => (frame.name = "todos" /\ todopage.todos = << >>)

\* a render of TodosPage whose refresh met a failing Notion query
C2_Witness ==
    /\ frame.name = "todos"
    /\ frame.requests = << NOTION_QUERY_URL >>
    /\ hist.last = "swallowed"
    /\ todopage.todos = << >>
    /\ todopage._last_fetch # << >>

\* the URLs of the satellite images, which are no part of the data a page
\* lists
ImageUrls ==
    UNION {{l[k].image : k \in 1..Len(l)} : l \in EarthViewLists}

\* the requests of a frame that fetch the data of the page
DataFetches(f) == SelectSeq(f.requests, LAMBDA u : u \notin ImageUrls)

C4_TimeBasedCache ==
    [][(now' = now /\ call'.op = "_fetch_ics") =>
        LET u == NormalizeUrl(call'.url) IN
        IF u \in DOMAIN client._cache /\ now - client._cache_time[u] < 15
        THEN /\ call'.requests = << >>
             /\ call'.ok
             /\ call'.cal = client._cache[u]
             /\ client' = client
        ELSE /\ call'.requests = << u >>
             /\ call'.kinds[1] = "ok" =>
                    /\ call'.ok
                    /\ client'._cache[u] = call'.cal
                    /\ client'._cache_time[u] = now
                    /\ \A v \in DOMAIN client._cache \ {u} :
                           /\ client'._cache[v] = client._cache[v]
                           /\ client'._cache_time[v] = client._cache_time[v]
    ]_vars

\* a _fetch_ics answered from a cache entry that is 10 minutes old
C4_Witness ==
    /\ call.op = "_fetch_ics"
    /\ call.requests = << >>
    /\ call.ok
    /\ call.at - client._cache_time[NormalizeUrl(call.url)] = 10

\* every configured calendar was fetched and delivered by the call
AllFetched(c) ==
    /\ Len(c.requests) > 0
    /\ \A i \in DOMAIN c.kinds : c.kinds[i] = "ok"

\* C5: a second get_calendar_events less than 15 minutes after a successful
\* first one issues no HTTP request and returns the data of the first.
C5_FeedCachedAcrossRefreshes ==
    [][(/\ call.op = "get_calendar_events"
        /\ AllFetched(call)
        /\ call'.op = "get_calendar_events"
        /\ call'.arg = call.arg
        /\ now' = now
        /\ call'.at - call.at < 15)
       => (call'.requests = << >> /\ call'.ret = call.ret)
    ]_vars

\* the page after p in config.PAGES, wrapping around
NextPage(p) ==
    LET k == CHOOSE i \in 1..Len(PAGES) : PAGES[i] = p
    IN PAGES[(k % Len(PAGES)) + 1]

\* C6: the page shown first is DEFAULT_PAGE, and a detected press of button
\* B shows the next page of PAGES.
C6_PageCycling ==
    [][/\ step = "constructed" => displayed' = DEFAULT_PAGE
       /\ (button_request /\ step # "constructed" /\ pending > 0 /\ pending' = 0)
              => displayed' = NextPage(displayed)
    ]_vars

\* a step of the loop of run(), as opposed to a press of the button
IsPoll == step # "constructed" /\ pending' # pending + 1

\* C7: run() updates once before the loop; then a poll that detects a press
\* updates at once and restarts the interval, a poll that detects none only
\* counts, and the poll that completes UPDATE_INTERVAL * 2 polls without a
\* press makes the scheduled update.
C7_PollingLoopSchedule ==
    [][/\ step = "constructed" => step' = "initial_update"
       /\ IsPoll =>
            LET detected == button_request /\ pending > 0 IN
            /\ polls < 2 * UPDATE_INTERVAL
            /\ detected => (step' = "button_update" /\ polls' = 0)
            /\ (~detected /\ polls + 1 < 2 * UPDATE_INTERVAL)
                   => (step' = "sleep" /\ polls' = polls + 1 /\ displayed' = displayed)
            /\ (~detected /\ polls + 1 = 2 * UPDATE_INTERVAL)
                   => (step' = "scheduled_update" /\ polls' = 0)
    ]_vars

\* the scheduled update, reached with button B ready but never pressed
C7_Witness ==
    /\ step = "scheduled_update"
    /\ button_request
    /\ polls = 0
    /\ pending = 0

\* C8: the list get_events returns is in ascending order of start.
C8_SortedByStart ==
    call.op = "get_events" =>
        \A i, j \in 1..Len(call.ret) :
            i < j => call.ret[i].start <= call.ret[j].start

C10_OnlyTodayAndOverdue ==
    (call.op = "get_todos_for_display" /\ call.ok) =>
        \A k \in 1..Len(call.ret) :
            /\ call.ret[k].has_due
            /\ DateOf(call.ret[k].due_date) <= DateOf(call.at)

\* the todos of the last get_todos_for_display that have no due date or
\* are due today or earlier, in the order the query delivered them
IncludedTodos ==
    SelectSeq([k \in 1..Len(call.results) |-> TodoDict(call.results[k], DateOf(call.at))],
              LAMBDA todo : ~todo.has_due \/ DateOf(todo.due_date) <= DateOf(call.at))

\* C11: in the list get_todos_for_display returns, the overdue todos come
\* first in ascending order of due date, then the other todos with a due
\* date in ascending order of due date, then the todos without due date;
\* the list holds every included todo as often as the query delivered it.
C11_OrderOfTodos ==
    (call.op = "get_todos_for_display" /\ call.ok) =>
        /\ \A i, j \in 1..Len(call.ret) :
               i < j =>
                   LET a == call.ret[i]
                       b == call.ret[j]
                   IN /\ b.is_overdue => a.is_overdue
                      /\ (a.is_overdue /\ b.is_overdue) => a.due_date <= b.due_date
                      /\ (~a.is_overdue /\ ~b.is_overdue) =>
                             /\ b.has_due => a.has_due
                             /\ (a.has_due /\ b.has_due) => a.due_date <= b.due_date
        /\ Len(call.ret) = Len(IncludedTodos)
        /\ \A e \in Range(IncludedTodos) : Count(e, call.ret) = Count(e, IncludedTodos)

\* a get_todos_for_display that had to reorder what the query delivered and
\* returned an overdue todo, a todo due today and a todo without due date
C11_Witness ==
    /\ call.op = "get_todos_for_display"
    /\ call.ok
    /\ Len(call.ret) = 3
    /\ call.ret # IncludedTodos
    /\ call.ret[1].is_overdue
    /\ call.ret[2].has_due /\ ~call.ret[2].is_overdue
    /\ ~call.ret[3].has_due

\* C12: two runs of the satellite page that started from the same state and
\* met the same clock readings and the same answers of the servers have
\* produced the same frame and hold the same page state.
C12_Determinism ==
    /\ twin.frame = frame
    /\ twin.sat = sat

\* C13: get_events_for_display(max_events) returns the first
\* min(max_events, n) of the n events get_events returns for 14 days, in
\* their order, and DashboardPage.events never holds more than 6 events.
C13_DisplayTruncation ==
    /\ call.op = "get_events_for_display" =>
           /\ Len(call.ret) = IF call.arg < Len(call.events) THEN call.arg
                              ELSE Len(call.events)
           /\ \A k \in 1..Len(call.ret) : call.ret[k] = call.events[k]
    /\ Len(dash.events) <= 6

\* a get_events_for_display(6) that cut a longer list, one that reaches
\* beyond the next two days
C13_Witness ==
    /\ call.op = "get_events_for_display"
    /\ call.arg = 6
    /\ Len(call.events) > 6
    /\ Len(call.ret) = 6
    /\ \E k \in 1..Len(call.events) :
           DateOf(call.events[k].start) > DateOf(call.at) + 2

\* the https URLs of the calendars secrets.py configures
ConfiguredFeedUrls ==
    IF secrets.CALENDARS = << >> THEN {} ELSE {"https://a", "https://b"}

C15_OverflowLine ==
    (/\ layout.op = "todos_box"
     /\ layout.max_items >= 1
     /\ Len(layout.todos) > layout.max_items) =>
        /\ layout.more # << >>
        /\ layout.more[1].remaining = Len(layout.todos) - layout.max_items
        /\ \A k \in 1..Len(layout.rows) : layout.rows[k].y < layout.more[1].y

\* C16: the box shows the first min(len(todos), max_items) todos (none when
\* that is negative), in list order, one per 18 pixels from y = 67 on, and
\* every row ends at or above max_y.
C16_RowsInsideBox ==
    layout.op = "todos_box" =>
        LET shown == Min(Len(layout.todos), layout.max_items) IN
        /\ Len(layout.rows) = IF shown < 0 THEN 0 ELSE shown
        /\ \A k \in 1..Len(layout.rows) :
               /\ layout.rows[k].todo = layout.todos[k]
               /\ layout.rows[k].y = 67 + 18 * (k - 1)
               /\ layout.rows[k].y + 18 <= layout.max_y

\* the box of the 448 pixel display filled with its 10 rows out of 12 todos
C16_Witness ==
    /\ layout.op = "todos_box"
    /\ layout.height = 448
    /\ Len(layout.todos) = 12
    /\ Len(layout.rows) = 10
    /\ layout.max_items = 10

\* C17: in every frame of the satellite page that holds an image, the data
\* overlay describes the entry whose image the frame shows.
C17_OverlayMatchesPicture ==
    (frame.name = "satellite" /\ frame.image # << >>) => frame.overlay = frame.image

\* the request for an image is among the requests of a frame
ImageRequested(f) == \E u \in Range(f.requests) : u # EARTHVIEW_JSON_URL

\* C18: a render of the satellite page with a list of n > 0 entries shows
\* the entry at the index held before the call, as number index + 1 of n,
\* leaves the index advanced by one modulo n and within 0..n-1, and
\* downloads the image only when _cache_index differs from the index shown
\* or no image is cached.
C18_SlideshowIndex ==
    [][(page = "satellite" /\ sat'.images_data # << >>) =>
        LET n == Len(sat'.images_data)
            shown == sat.current_image_index
        IN /\ sat'.current_image_index \in 0..(n - 1)
           /\ sat'.current_image_index = (shown + 1) % n
           /\ frame'.overlay = << sat'.images_data[shown + 1].id >>
           /\ frame'.counter = << shown + 1, n >>
           /\ ImageRequested(frame') =>
                  (sat._cache_index # shown \/ sat._cached_image = << >>)
    ]_vars

\* the second entry of a list of two was shown and the index is back at 0
C18_Witness ==
    /\ frame.name = "satellite"
    /\ Len(sat.images_data) = 2
    /\ frame.counter = << 2, 2 >>
    /\ frame.overlay = << sat.images_data[2].id >>
    /\ sat.current_image_index = 0

\* C19: a render of DashboardPage or TodosPage refreshes exactly when
\* _last_fetch is unset, and then contacts the source when one is
\* configured; a render that finds _last_fetch set issues no request and
\* leaves the page, with its list, as it was, whatever the clock reads.
C19_FetchOnce ==
    [][(hist'.renders = hist.renders + 1) =>
        /\ page = "dashboard" =>
               IF dash._last_fetch = << >>
               THEN /\ dash'._last_fetch = << now >>
                    /\ frame'.requests # << >>
                           <=> (secrets.present /\ secrets.CALENDARS # << >>)
               ELSE dash' = dash /\ frame'.requests = << >>
        /\ page = "todos" =>
               IF todopage._last_fetch = << >>
               THEN /\ \/ todopage'._last_fetch = << now >>
                       \/ todopage' = NewTodosPage /\ hist'.last = "caught"
                    /\ frame'.requests # << >> <=> (secrets.present /\ secrets.notion)
               ELSE todopage' = todopage /\ frame'.requests = << >>
    ]_vars

\* a render of the dashboard page 15 minutes after its refresh, which
\* fetched nothing and left the events in place
C19_Witness ==
    /\ frame.name = "dashboard"
    /\ frame.requests = << >>
    /\ dash.events # << >>
    /\ dash._last_fetch = << ClockStart >>
    /\ now = ClockStart + 15
    /\ hist.renders >= 2

\* C20: a poll that finds one or more edge events of button B pending
\* reads them all and makes one forced update; a poll that finds none
\* makes no forced update and leaves none pending.
C20_PressesCoalesced ==
    [][IsPoll =>
        IF button_request /\ pending > 0
        THEN pending' = 0 /\ step' = "button_update" /\ polls' = 0
        ELSE pending' = pending /\ step' # "button_update"
    ]_vars

\* a forced update has just answered the presses, and none is left
C20_Witness ==
    /\ step = "button_update"
    /\ button_request
    /\ pending = 0
    /\ polls = 0
    /\ displayed = RenderedByMain

\* two frames share a pixel
Overlap(a, b) ==
    /\ a.x0 <= b.x1 /\ b.x0 <= a.x1
    /\ a.y0 <= b.y1 /\ b.y0 <= a.y1

\* C21: in the dashboard's layout the right column ends at or before the
\* right margin and starts gap pixels after the right edge of the left
\* column; the time box, the gap and the placeholder box add up to
\* available_height, so the placeholder box ends at the y where the events
\* box ends; that y is gap pixels above the daylight arc area; and no two of
\* the three boxes share a pixel.
C21_BoxPartitioning ==
    layout.op = "dashboard_boxes" =>
        /\ layout.right_col_x + layout.right_col_width <= layout.width - layout.margin
        /\ layout.events_box.x1 <= layout.width - layout.margin
        /\ layout.time_box.x1 + layout.gap = layout.right_col_x
        /\ layout.placeholder_box.x1 + layout.gap = layout.events_box.x0
        /\ layout.left_time_box_height + layout.gap + layout.left_placeholder_height
               = layout.available_height
        /\ layout.time_box.y0 = layout.events_box.y0
        /\ layout.placeholder_box.y0 = layout.time_box.y1 + layout.gap
        /\ layout.placeholder_box.y1 = layout.events_box.y1
        /\ layout.events_box.y1 + layout.gap = layout.arc_area.y0
        /\ \A b \in {layout.time_box, layout.placeholder_box, layout.events_box} :
               b.x0 < b.x1 /\ b.y0 < b.y1
        /\ ~Overlap(layout.time_box, layout.placeholder_box)
        /\ ~Overlap(layout.time_box, layout.events_box)
        /\ ~Overlap(layout.placeholder_box, layout.events_box)

\* the boxes of the configured 600x448 display: two columns of 281 pixels,
\* the right one from x = 304 to the margin at 585, all boxes ending at 370
C21_Witness ==
    /\ layout.op = "dashboard_boxes"
    /\ layout.width = DISPLAY_WIDTH
    /\ layout.height = DISPLAY_HEIGHT
    /\ layout.time_box = [x0 |-> 15, y0 |-> 35, x1 |-> 296, y1 |-> 198]
    /\ layout.placeholder_box = [x0 |-> 15, y0 |-> 206, x1 |-> 296, y1 |-> 370]
    /\ layout.events_box = [x0 |-> 304, y0 |-> 35, x1 |-> 585, y1 |-> 370]
    /\ layout.arc_area.y0 = 378

====
